---- MODULE Spec2Model ----
(***************************************************************************)
(* The knowledge-graph plugin (KnowledgeGraphPlugin): the four SQLite      *)
(* tables, the in-memory currentSessionId, the lifecycle hooks and the     *)
(* eight tools, as a state machine.                                        *)
(*                                                                         *)
(* Strings are sequences of one-character strings, so that LIKE, the       *)
(* '%' wrapping of identifiers, substring() and the error text are         *)
(* computed as the code computes them.  SQL NULL and JavaScript undefined  *)
(* are the one-token sequences NULL and UNDEFINED, which no string built   *)
(* from the alphabet equals.  A table is the sequence of its rows in rowid *)
(* order.  uuidv4() is a counter: every call yields a value never yielded  *)
(* before.  The wall clock is the variable now; datetime('now') and        *)
(* Date.now() both read it, and several operations may run at one reading. *)
(***************************************************************************)
EXTENDS Integers, Sequences, FiniteSets, TLC

VARIABLES entities, relationships, sessions, queries, currentSessionId,
          nextUuid, now, last

vars == <<entities, relationships, sessions, queries, currentSessionId,
          nextUuid, now, last>>

tables == <<entities, relationships, sessions, queries>>

----------------------------------------------------------------------------
(* Bounds of the model *)

\* uuidv4() is called at most MaxUuid times: the rows of all tables together
MaxUuid == 2

\* the same, where only the operations on entities and relationships run
MaxGraphUuid == 3

\* the same, where only the operations on sessions run
MaxSessionUuid == 2

\* the clock takes the readings 1..MaxTime
MaxTime == 2

\* The ids the captures may draw
MaxCaptureUuid == 5

----------------------------------------------------------------------------
(* Values *)

NULL == <<"<null>">>

UNDEFINED == <<"<undefined>">>

\* JavaScript truthiness of a string-or-undefined-or-null value
Truthy(v) == v # UNDEFINED /\ v # NULL /\ v # <<>>

\* v || d
OrElse(v, d) == IF Truthy(v) THEN v ELSE d

Min(a, b) == IF a < b THEN a ELSE b

\* const x = v, then Body(x): v is computed once
With(v, Body(_)) == CHOOSE y \in {Body(x) : x \in {v}} : TRUE

Max(a, b) == IF a > b THEN a ELSE b

\* String.prototype.substring(a, b), for 0 <= a <= b
substring(s, a, b) == SubSeq(s, a + 1, Min(b, Len(s)))

UpperChars == <<"A","B","C","D","E","F","G","H","I","J","K","L","M",
                "N","O","P","Q","R","S","T","U","V","W","X","Y","Z">>

LowerChars == <<"a","b","c","d","e","f","g","h","i","j","k","l","m",
                "n","o","p","q","r","s","t","u","v","w","x","y","z">>

\* SQLite folds ASCII upper case to lower case when LIKE compares characters
FoldCase ==
  [c \in {UpperChars[i] : i \in 1..Len(UpperChars)} |->
     LowerChars[CHOOSE i \in 1..Len(UpperChars) : UpperChars[i] = c]]

Lower(c) == IF c \in DOMAIN FoldCase THEN FoldCase[c] ELSE c

\* SQLite's  s LIKE pat : % matches any run of characters, _ exactly one,
\* any other character itself, ASCII case folded; NULL matches nothing
\* (pat from its character i on matches s from its character j on)
RECURSIVE LikeMatchAt(_, _, _, _)
LikeMatchAt(pat, s, i, j) ==
  IF i > Len(pat) THEN j > Len(s)
  ELSE IF pat[i] = "%"
       THEN \E k \in j..(Len(s) + 1) : LikeMatchAt(pat, s, i + 1, k)
       ELSE /\ j <= Len(s)
            /\ (pat[i] = "_" \/ Lower(pat[i]) = Lower(s[j]))
            /\ LikeMatchAt(pat, s, i + 1, j + 1)

LikeMatch(pat, s) == \E p \in {pat}, t \in {s} : LikeMatchAt(p, t, 1, 1)

Like(s, pat) == s # NULL /\ LikeMatch(pat, s)

\* the template `%${x}%`
Wrapped(x) == <<"%">> \o x \o <<"%">>

\* whether the string s holds the string t (String.prototype.includes)
includes(s, t) ==
  \E i \in 0..(Len(s) - Len(t)) : SubSeq(s, i + 1, i + Len(t)) = t

startsWith(s, t) == Len(t) <= Len(s) /\ SubSeq(s, 1, Len(t)) = t

endsWith(s, t) == Len(t) <= Len(s) /\ SubSeq(s, Len(s) - Len(t) + 1, Len(s)) = t

\* String.prototype.split(sep) for a one-character sep: the pieces of s
RECURSIVE split(_, _)
split(s, sep) ==
  IF \A i \in 1..Len(s) : s[i] # sep THEN <<s>>
  ELSE LET k == CHOOSE i \in 1..Len(s) :
                  s[i] = sep /\ \A j \in 1..(i - 1) : s[j] # sep
       IN  <<SubSeq(s, 1, k - 1)>> \o split(SubSeq(s, k + 1, Len(s)), sep)

\* Array.prototype.join(sep)
RECURSIVE join(_, _)
join(parts, sep) ==
  IF parts = <<>> THEN <<>>
  ELSE IF Len(parts) = 1 THEN parts[1]
       ELSE parts[1] \o sep \o join(Tail(parts), sep)

\* path.normalize (POSIX): the segments of the path with "" and "." dropped
\* and ".." taking back the segment before it; a relative path keeps the
\* ".." it cannot take back
RECURSIVE normalizeSegments(_, _, _)
normalizeSegments(segs, acc, allowAboveRoot) ==
  IF segs = <<>> THEN acc
  ELSE LET seg == Head(segs)
           rest == Tail(segs)
       IN  IF seg = <<>> \/ seg = <<".">>
           THEN normalizeSegments(rest, acc, allowAboveRoot)
           ELSE IF seg = <<".", ".">>
                THEN IF acc # <<>> /\ acc[Len(acc)] # <<".", ".">>
                     THEN normalizeSegments(rest, SubSeq(acc, 1, Len(acc) - 1),
                                            allowAboveRoot)
                     ELSE IF allowAboveRoot
                          THEN normalizeSegments(rest, Append(acc, seg),
                                                 allowAboveRoot)
                          ELSE normalizeSegments(rest, acc, allowAboveRoot)
                ELSE normalizeSegments(rest, Append(acc, seg), allowAboveRoot)

normalize(path) ==
  IF path = <<>> THEN <<".">>
  ELSE LET isAbsolute == Head(path) = "/"
           trailingSeparator == path[Len(path)] = "/"
           body == join(normalizeSegments(split(path, "/"), <<>>, ~isAbsolute),
                        <<"/">>)
       IN  IF body = <<>>
           THEN IF isAbsolute THEN <<"/">>
                ELSE IF trailingSeparator THEN <<".", "/">> ELSE <<".">>
           ELSE (IF isAbsolute THEN <<"/">> ELSE <<>>)
                \o body
                \o (IF trailingSeparator THEN <<"/">> ELSE <<>>)

\* JSON.stringify of a string: quoted, with " \ and the newline escaped
RECURSIVE JsonEscape(_)
JsonEscape(s) ==
  IF s = <<>> THEN <<>>
  ELSE (CASE Head(s) = "\"" -> <<"\\", "\"">>
          [] Head(s) = "\\" -> <<"\\", "\\">>
          [] Head(s) = "\n" -> <<"\\", "n">>
          [] OTHER -> <<Head(s)>>)
       \o JsonEscape(Tail(s))

JsonString(s) == <<"\"">> \o JsonEscape(s) \o <<"\"">>

\* JSON.stringify of an object whose members are the pairs <<key, value>>,
\* each value a string or undefined: a member that is undefined is left out
JsonStringify(members) ==
  LET Defined(m) == m[2] # UNDEFINED
      kept == SelectSeq(members, Defined)
  IN  <<"{">>
      \o join([i \in 1..Len(kept) |->
                 JsonString(kept[i][1]) \o <<":">> \o JsonString(kept[i][2])],
              <<",">>)
      \o <<"}">>

\* The JSON string literal of s that opens at position i: [ok, value, next],
\* next the position after the closing quote
RECURSIVE JsonScanString(_, _, _)
JsonScanString(s, i, acc) ==
  IF i > Len(s) THEN [ok |-> FALSE, value |-> <<>>, next |-> i]
  ELSE IF s[i] = "\"" THEN [ok |-> TRUE, value |-> acc, next |-> i + 1]
  ELSE IF s[i] = "\n" THEN [ok |-> FALSE, value |-> <<>>, next |-> i]
  ELSE IF s[i] = "\\"
       THEN IF i + 1 > Len(s) THEN [ok |-> FALSE, value |-> <<>>, next |-> i]
            ELSE IF s[i + 1] \in {"\"", "\\", "/"}
                 THEN JsonScanString(s, i + 2, Append(acc, s[i + 1]))
                 ELSE IF s[i + 1] = "n"
                      THEN JsonScanString(s, i + 2, Append(acc, "\n"))
                      ELSE [ok |-> FALSE, value |-> <<>>, next |-> i]
       ELSE JsonScanString(s, i + 1, Append(acc, s[i]))

JsonParseString(s, i) ==
  IF i <= Len(s) /\ s[i] = "\""
  THEN JsonScanString(s, i + 1, <<>>)
  ELSE [ok |-> FALSE, value |-> <<>>, next |-> i]

\* the members  "key":"value",...  from position i up to the closing brace
RECURSIVE JsonParseMembers(_, _, _)
JsonParseMembers(s, i, acc) ==
  LET Member(k) ==
        LET Rest(v) ==
              IF ~k.ok \/ k.next > Len(s) \/ s[k.next] # ":" \/ ~v.ok
              THEN [ok |-> FALSE, members |-> <<>>]
              ELSE IF v.next = Len(s) /\ s[v.next] = "}"
                   THEN [ok |-> TRUE, members |-> Append(acc, <<k.value, v.value>>)]
                   ELSE IF v.next < Len(s) /\ s[v.next] = ","
                        THEN JsonParseMembers(s, v.next + 1,
                                              Append(acc, <<k.value, v.value>>))
                        ELSE [ok |-> FALSE, members |-> <<>>]
        IN  With(JsonParseString(s, k.next + 1), Rest)
  IN  With(JsonParseString(s, i), Member)

\* JSON.parse, for the texts the model stores: a text that is an object of
\* string members parses to its members; a text that opens with no brace is
\* no JSON (none of the stored texts is a JSON number, string, array or
\* literal) and JSON.parse throws
JsonParse(s) ==
  LET Parse(text) ==
        IF text = NULL \/ text = UNDEFINED \/ Len(text) < 2 \/ text[1] # "{"
        THEN [ok |-> FALSE, members |-> <<>>]
        ELSE IF text = <<"{", "}">> THEN [ok |-> TRUE, members |-> <<>>]
             ELSE JsonParseMembers(text, 2, <<>>)
  IN  With(s, Parse)

\* the items  "a","b",...  from position i up to the closing bracket
RECURSIVE JsonParseItems(_, _, _)
JsonParseItems(s, i, acc) ==
  LET Rest(v) ==
        IF ~v.ok THEN [ok |-> FALSE, items |-> <<>>]
        ELSE IF v.next = Len(s) /\ s[v.next] = "]"
             THEN [ok |-> TRUE, items |-> Append(acc, v.value)]
             ELSE IF v.next < Len(s) /\ s[v.next] = ","
                  THEN JsonParseItems(s, v.next + 1, Append(acc, v.value))
                  ELSE [ok |-> FALSE, items |-> <<>>]
  IN  With(JsonParseString(s, i), Rest)

\* JSON.parse of a text that is an array of strings
JsonParseArray(s) ==
  LET Parse(text) ==
        IF text = NULL \/ text = UNDEFINED \/ Len(text) < 2 \/ text[1] # "["
        THEN [ok |-> FALSE, items |-> <<>>]
        ELSE IF text = <<"[", "]">> THEN [ok |-> TRUE, items |-> <<>>]
             ELSE JsonParseItems(text, 2, <<>>)
  IN  With(s, Parse)

\* parsed[key]: the last member of that key, or undefined
JsonMember(members, key) ==
  LET Is(m) == m[1] = key
      found == SelectSeq(members, Is)
  IN  IF found = <<>> THEN UNDEFINED ELSE found[Len(found)][2]

S_undefined == <<"u","n","d","e","f","i","n","e","d">>

S_null == <<"n","u","l","l">>

\* `${v}` in a template literal
Text(v) == IF v = UNDEFINED THEN S_undefined ELSE IF v = NULL THEN S_null ELSE v

\* the rows of a table that satisfy Keep, in table order
SelectWhere(rows, Keep(_)) == SelectSeq(rows, Keep)

\* ORDER BY key DESC: rows of equal key stay in table order
OrderByDesc(rows, Key(_)) ==
  LET Sorted(rs) ==
        LET n == Len(rs)
            rank(i) == 1 + Cardinality({j \in 1..n :
                              \/ Key(rs[j]) > Key(rs[i])
                              \/ (Key(rs[j]) = Key(rs[i]) /\ j < i)})
        IN  [p \in 1..n |-> rs[CHOOSE i \in 1..n : rank(i) = p]]
  IN  With(rows, Sorted)

\* LIMIT n: a negative n is no limit
Limit(rows, n) ==
  LET Cut(rs) == IF n < 0 THEN rs ELSE SubSeq(rs, 1, Min(n, Len(rs)))
  IN  With(rows, Cut)

\* statement.get(): the first row if there is one (a sequence of length <= 1)
Get(rows) == SubSeq(rows, 1, Min(1, Len(rows)))

uuidv4 == <<"uuid", ToString(nextUuid)>>

\* end_time of a session that has not ended (the column has no default)
NoTime == 0

----------------------------------------------------------------------------
(* The strings the operations are called with *)

S_read == <<"r","e","a","d">>

S_UserService == <<"U","s","e","r","S","e","r","v","i","c","e">>

S_Database == <<"D","a","t","a","b","a","s","e">>

S_User == <<"U","s","e","r">>

S_PctUser == <<"%","U","s","e","r","%">>

S_component == <<"c","o","m","p","o","n","e","n","t">>

S_concept == <<"c","o","n","c","e","p","t">>

S_decision == <<"d","e","c","i","s","i","o","n">>

S_documentation == <<"d","o","c","u","m","e","n","t","a","t","i","o","n">>

S_depends_on == <<"d","e","p","e","n","d","s","_","o","n">>

S_auth == <<"H","a","n","d","l","e","s"," ","a","u","t","h">>

S_store == <<"P","o","s","t","g","r","e","s"," ","s","t","o","r","e">>

S_layer == <<"{","\"","l","\"",":","1","}">>

P_p == <<"/","p">>

P_q == <<"/","q">>

P_cwd == <<"/","c","w","d">>

\* the { directory, worktree } a tool call carries
Contexts == { [worktree |-> P_p, directory |-> P_q],
              [worktree |-> UNDEFINED, directory |-> P_q] }

\* the { name, type, content, metadata } knowledge_add_entity is called with
EntityArgs ==
  { [name |-> S_UserService, type |-> S_component, content |-> S_auth,
     metadata |-> S_layer],
    [name |-> S_Database, type |-> S_component, content |-> S_store,
     metadata |-> UNDEFINED],
    [name |-> S_PctUser, type |-> S_concept, content |-> S_User,
     metadata |-> <<>>] }

\* the <<source, target>> identifiers knowledge_connect is called with:
\* names, and the ids of the stored entities
ConnectArgs ==
  { <<S_UserService, S_Database>>, <<S_User, S_User>>,
    <<S_User, S_Database>>, <<S_Database, S_User>> }
  \cup { <<entities[i].id, entities[j].id>> :
           i \in 1..Len(entities), j \in 1..Len(entities) }

\* the { query, type, limit } knowledge_search is called with
SearchArgs ==
  { [query |-> S_User, type |-> UNDEFINED],
    [query |-> <<>>, type |-> UNDEFINED, limit |-> 1],
    [query |-> <<"s","_","r">>, type |-> S_component, limit |-> 0 - 1],
    [query |-> <<>>, type |-> UNDEFINED, limit |-> 0] }

\* the { limit } knowledge_sessions is called with
SessionsArgs == {[x \in {} |-> 0], [limit |-> 1]}

S_f1 == <<"[","\"","a",".","t","s","\"","]">>

S_s1 == <<"J","W","T">>

S_s2 == <<"f","i","x">>

S_d1 == <<"u","s","e"," ","\"","j","w","t","\"">>

\* the { summary, decisions, files } knowledge_summarize_session is called with
SummaryArgs ==
  { [summary |-> S_s1, decisions |-> S_d1, files |-> S_f1],
    [summary |-> S_s2, decisions |-> <<>>, files |-> <<"a",".","t","s">>] }

S_UsePostgreSQL == <<"U","s","e"," ","P","o","s","t","g","r","e","S","Q","L">>

S_ACID == <<"A","C","I","D"," ","n","e","e","d","e","d">>

\* the { decision, rationale, alternatives } knowledge_record_decision is called with
DecisionArgs ==
  { [decision |-> S_UsePostgreSQL, rationale |-> S_ACID, alternatives |-> UNDEFINED] }

\* the questions knowledge_ask is called with
Questions == { <<"d","a","t","a","b","a","s","e"," ","c","h","o","i","c","e">> }

S_a_ts == <<"a",".","t","s">>

\* the file paths the host reports
FilePaths == { S_a_ts, <<".","/","a",".","t","s">>, S_UserService }

S_bash == <<"b","a","s","h">>

S_git_log == <<"g","i","t"," ","l","o","g">>

S_git_diff == <<"g","i","t"," ","d","i","f","f">>

S_git_status == <<"g","i","t"," ","s","t","a","t","u","s">>

S_git_show == <<"g","i","t"," ","s","h","o","w">>

S_README == <<"R","E","A","D","M","E",".","m","d">>

S_ok == <<"o","k">>

\* a README of one section that holds one decision
S_ReadmeText == <<"#","#"," ","A","\n","d","e","c","i","s","i","o","n",":"," ","b">>

\* the { tool, args, result } tool.execute.after is called with
ToolRuns ==
  { [tool |-> S_read, args |-> [filePath |-> f], result |-> S_auth]
      : f \in FilePaths }
  \cup { [tool |-> S_read, args |-> [filePath |-> S_README], result |-> S_ReadmeText],
         [tool |-> S_bash, args |-> [command |-> S_git_status], result |-> S_ok] }

\* the { entityType, depth } knowledge_graph is called with
GraphArgs ==
  { [entityType |-> UNDEFINED],
    [entityType |-> S_component],
    [entityType |-> S_component, depth |-> 2] }

----------------------------------------------------------------------------
(* The plugin *)

getProjectPath(worktree, directory) ==
  IF Truthy(worktree) THEN worktree ELSE OrElse(directory, P_cwd)

\* the project path of the plugin instance
projectPath == getProjectPath(P_p, P_p)

initDatabase ==
  /\ entities = <<>>
  /\ relationships = <<>>
  /\ sessions = <<>>
  /\ queries = <<>>

\* no call is in progress: the host has taken the result of the last one
Idle == [op |-> "none"]

KnowledgeGraphPlugin ==
  /\ initDatabase
  /\ currentSessionId = NULL
  /\ nextUuid = 1
  /\ now = 1
  /\ last = Idle

\* (mutant) initDatabase() on a store that holds rows: the tables are made anew
initDatabaseFresh ==
  /\ entities' = <<>>
  /\ relationships' = <<>>
  /\ sessions' = <<>>
  /\ queries' = <<>>

\* initDatabase() on the store an earlier process left at DB_PATH: CREATE
\* TABLE IF NOT EXISTS and CREATE INDEX IF NOT EXISTS keep what is there
initDatabaseAgain == UNCHANGED tables

\* the process ends and a new one loads the plugin
Restart ==
  /\ initDatabaseAgain
  /\ currentSessionId' = NULL
  /\ last' = [op |-> "restart"]
  /\ UNCHANGED <<nextUuid, now>>

\* the wall clock advances between two operations
Tick ==
  /\ now' = now + 1
  /\ last' = [op |-> "tick"]
  /\ UNCHANGED <<tables, currentSessionId, nextUuid>>

----------------------------------------------------------------------------
(* tool.knowledge_search *)

DefaultLimit == 10

SearchContentMax == 500

SearchRows(projPath, query, type, limit) ==
  LET Matches(r) == /\ r.project_path = projPath
                    /\ (Like(r.name, Wrapped(query)) \/ Like(r.content, Wrapped(query)))
                    /\ (Truthy(type) => r.type = type)
      Updated(r) == r.updated_at
  IN  Limit(OrderByDesc(SelectWhere(entities, Matches), Updated), limit)

SearchResult(projPath, query, type, limit) ==
  LET Out(results) ==
        [query |-> query,
         count |-> Len(results),
         results |-> [i \in 1..Len(results) |->
                        [id |-> results[i].id,
                         type |-> results[i].type,
                         name |-> results[i].name,
                         content |-> IF results[i].content = NULL THEN UNDEFINED
                                     ELSE substring(results[i].content, 0, SearchContentMax),
                         updated |-> results[i].updated_at]]]
  IN  With(SearchRows(projPath, query, type, limit), Out)

\* args is { query, type } or { query, type, limit }: limit = 10 when omitted
knowledge_search(ctx, args) ==
  LET projPath == getProjectPath(ctx.worktree, ctx.directory)
      limit == IF "limit" \in DOMAIN args THEN args.limit ELSE DefaultLimit
  IN  /\ last' = [op |-> "search", projPath |-> projPath, args |-> args,
                  out |-> SearchResult(projPath, args.query, args.type, limit)]
      /\ UNCHANGED <<tables, currentSessionId, nextUuid, now>>

----------------------------------------------------------------------------
(* tool.knowledge_add_entity *)

\* (mutant) the metadata argument is not stored
NewEntityNoMetadata(id, type, name, content, metadata, projPath) ==
  [id |-> id, type |-> type, name |-> name, content |-> content,
   metadata |-> NULL, project_path |-> projPath,
   created_at |-> now, updated_at |-> now]

NewEntity(id, type, name, content, metadata, projPath) ==
  [id |-> id, type |-> type, name |-> name, content |-> content,
   metadata |-> metadata, project_path |-> projPath,
   created_at |-> now, updated_at |-> now]

\* (mutant) a name the project already has is not inserted again
knowledge_add_entity_dedup(ctx, a) ==
  LET projPath == getProjectPath(ctx.worktree, ctx.directory)
      id == uuidv4
      Same(r) == r.project_path = projPath /\ r.name = a.name
      found == Get(SelectWhere(entities, Same))
  IN  IF found = <<>>
      THEN /\ nextUuid' = nextUuid + 1
           /\ entities' = Append(entities,
                                 [id |-> id, type |-> a.type, name |-> a.name,
                                  content |-> a.content,
                                  metadata |-> OrElse(a.metadata, NULL),
                                  project_path |-> projPath,
                                  created_at |-> now, updated_at |-> now])
           /\ last' = [op |-> "addEntity", projPath |-> projPath, args |-> a,
                       out |-> [success |-> TRUE, entityId |-> id,
                                name |-> a.name, type |-> a.type]]
           /\ UNCHANGED <<relationships, sessions, queries, currentSessionId, now>>
      ELSE /\ last' = [op |-> "addEntity", projPath |-> projPath, args |-> a,
                       out |-> [success |-> TRUE, entityId |-> found[1].id,
                                name |-> a.name, type |-> a.type]]
           /\ UNCHANGED <<tables, currentSessionId, nextUuid, now>>

knowledge_add_entity(ctx, a) ==
  LET projPath == getProjectPath(ctx.worktree, ctx.directory)
      id == uuidv4
  IN  /\ nextUuid' = nextUuid + 1
      /\ entities' = Append(entities,
                            NewEntity(id, a.type, a.name, a.content,
                                      OrElse(a.metadata, NULL), projPath))
      /\ last' = [op |-> "addEntity", projPath |-> projPath, args |-> a,
                  out |-> [success |-> TRUE, entityId |-> id,
                           name |-> a.name, type |-> a.type]]
      /\ UNCHANGED <<relationships, sessions, queries, currentSessionId, now>>

----------------------------------------------------------------------------
(* tool.knowledge_connect *)

S_CouldNotFind == <<"C","o","u","l","d"," ","n","o","t"," ","f","i","n","d"," ",
                    "e","n","t","i","t","i","e","s",":"," ">>

\* SELECT id FROM entities WHERE project_path = ? AND (id = ? OR name = ?),
\* bound to (projPath, identifier, `%${identifier}%`), .get()
\* (mutant) the lookup does not filter by project
ResolveEntityAnyProject(projPath, identifier) ==
  LET Matches(r) == r.id = identifier \/ r.name = Wrapped(identifier)
  IN  Get(SelectWhere(entities, Matches))

ResolveEntity(projPath, identifier) ==
  LET Matches(r) == /\ r.project_path = projPath
                    /\ (r.id = identifier \/ r.name = Wrapped(identifier))
  IN  Get(SelectWhere(entities, Matches))

\* (mutant) the error names the side that resolved
ConnectErrorSwapped(sourceEntity, targetEntity, source, target) ==
  S_CouldNotFind \o (IF sourceEntity = <<>> THEN <<>> ELSE source)
                 \o <<" ">>
                 \o (IF targetEntity = <<>> THEN <<>> ELSE target)

ConnectError(sourceEntity, targetEntity, source, target) ==
  S_CouldNotFind \o (IF sourceEntity = <<>> THEN source ELSE <<>>)
                 \o <<" ">>
                 \o (IF targetEntity = <<>> THEN target ELSE <<>>)

NewRelationship(id, sourceId, targetId, relationship, projPath) ==
  [id |-> id, source_id |-> sourceId, target_id |-> targetId,
   relationship_type |-> relationship, metadata |-> NULL,
   project_path |-> projPath, created_at |-> now]

\* (mutant) an edge from an entity to itself is reported and not stored
knowledge_connect_noloop(ctx, source, target, relationship) ==
  LET projPath == getProjectPath(ctx.worktree, ctx.directory)
      sourceEntity == ResolveEntity(projPath, source)
      targetEntity == ResolveEntity(projPath, target)
      id == uuidv4
      call == [op |-> "connect", projPath |-> projPath, source |-> source,
               target |-> target, relationship |-> relationship]
  IN  IF sourceEntity = <<>> \/ targetEntity = <<>>
      THEN /\ last' = call @@ [ok |-> FALSE,
                               error |-> ConnectError(sourceEntity, targetEntity,
                                                      source, target)]
           /\ UNCHANGED <<tables, currentSessionId, nextUuid, now>>
      ELSE /\ nextUuid' = nextUuid + 1
           /\ relationships' =
                IF sourceEntity[1].id = targetEntity[1].id THEN relationships
                ELSE Append(relationships,
                            NewRelationship(id, sourceEntity[1].id,
                                            targetEntity[1].id, relationship,
                                            projPath))
           /\ last' = call @@ [ok |-> TRUE,
                               out |-> [success |-> TRUE, relationshipId |-> id,
                                        from |-> source, to |-> target,
                                        type |-> relationship]]
           /\ UNCHANGED <<entities, sessions, queries, currentSessionId, now>>

knowledge_connect(ctx, source, target, relationship) ==
  LET projPath == getProjectPath(ctx.worktree, ctx.directory)
      sourceEntity == ResolveEntity(projPath, source)
      targetEntity == ResolveEntity(projPath, target)
      id == uuidv4
      call == [op |-> "connect", projPath |-> projPath, source |-> source,
               target |-> target, relationship |-> relationship]
  IN  IF sourceEntity = <<>> \/ targetEntity = <<>>
      THEN /\ last' = call @@ [ok |-> FALSE,
                               error |-> ConnectError(sourceEntity, targetEntity,
                                                      source, target)]
           /\ UNCHANGED <<tables, currentSessionId, nextUuid, now>>
      ELSE /\ nextUuid' = nextUuid + 1
           /\ relationships' =
                Append(relationships,
                       NewRelationship(id, sourceEntity[1].id, targetEntity[1].id,
                                       relationship, projPath))
           /\ last' = call @@ [ok |-> TRUE,
                               out |-> [success |-> TRUE, relationshipId |-> id,
                                        from |-> source, to |-> target,
                                        type |-> relationship]]
           /\ UNCHANGED <<entities, sessions, queries, currentSessionId, now>>

----------------------------------------------------------------------------
(* tool.knowledge_graph *)

\* FROM relationships r JOIN entities s ON r.source_id = s.id
\*                      JOIN entities t ON r.target_id = t.id
\* WHERE r.project_path = ?
GraphEdges(projPath) ==
  LET Src(r) == {i \in 1..Len(entities) : entities[i].id = r.source_id}
      Tgt(r) == {i \in 1..Len(entities) : entities[i].id = r.target_id}
      Joined(r) == r.project_path = projPath /\ Src(r) # {} /\ Tgt(r) # {}
      rows == SelectWhere(relationships, Joined)
  IN  [k \in 1..Len(rows) |->
         [id |-> rows[k].id,
          source |-> entities[CHOOSE i \in Src(rows[k]) : TRUE].name,
          target |-> entities[CHOOSE i \in Tgt(rows[k]) : TRUE].name,
          type |-> rows[k].relationship_type]]

GraphNodes(projPath, entityType) ==
  LET Matches(r) == /\ r.project_path = projPath
                    /\ (Truthy(entityType) => r.type = entityType)
      rows == SelectWhere(entities, Matches)
  IN  [k \in 1..Len(rows) |->
         [id |-> rows[k].id, label |-> rows[k].name,
          type |-> rows[k].type, metadata |-> rows[k].metadata]]

\* (mutant) only the edges between the nodes returned
GraphResultInduced(projPath, entityType, depth) ==
  LET nodes == GraphNodes(projPath, entityType)
      Inside(e) == /\ \E n \in 1..Len(nodes) : nodes[n].label = e.source
                   /\ \E n \in 1..Len(nodes) : nodes[n].label = e.target
  IN  [nodes |-> nodes, edges |-> SelectWhere(GraphEdges(projPath), Inside)]

GraphResult(projPath, entityType, depth) ==
  [nodes |-> GraphNodes(projPath, entityType), edges |-> GraphEdges(projPath)]

DefaultDepth == 1

\* args is { entityType } or { entityType, depth }: depth = 1 when omitted
knowledge_graph(ctx, args) ==
  LET projPath == getProjectPath(ctx.worktree, ctx.directory)
      depth == IF "depth" \in DOMAIN args THEN args.depth ELSE DefaultDepth
  IN  /\ last' = [op |-> "exportGraph", projPath |-> projPath, args |-> args,
                  out |-> GraphResult(projPath, args.entityType, depth)]
      /\ UNCHANGED <<tables, currentSessionId, nextUuid, now>>

----------------------------------------------------------------------------
(* tool.knowledge_sessions *)

\* JSON.parse(s.files_modified): the list of a JSON array of strings; any
\* other text the model stores there is no JSON, and JSON.parse throws
FilesParse(text) == JsonParseArray(text)

SessionRows(projPath, limit) ==
  LET InProject(r) == r.project_path = projPath
      Start(r) == r.start_time
  IN  Limit(OrderByDesc(SelectWhere(sessions, InProject), Start), limit)

SessionsResult(projPath, limit) ==
  LET Out(rows) ==
        [count |-> Len(rows),
         sessions |-> [i \in 1..Len(rows) |->
                         [id |-> rows[i].id,
                          startTime |-> rows[i].start_time,
                          endTime |-> rows[i].end_time,
                          summary |-> rows[i].summary,
                          keyDecisions |-> rows[i].key_decisions,
                          filesModified |->
                            IF Truthy(rows[i].files_modified)
                            THEN FilesParse(rows[i].files_modified).items
                            ELSE <<>>]]]
  IN  With(SessionRows(projPath, limit), Out)

SessionsThrows(projPath, limit) ==
  LET rows == SessionRows(projPath, limit)
  IN  \E i \in 1..Len(rows) :
        Truthy(rows[i].files_modified) /\ ~FilesParse(rows[i].files_modified).ok

\* args is { } or { limit }: limit = 10 when omitted
knowledge_sessions(ctx, args) ==
  LET projPath == getProjectPath(ctx.worktree, ctx.directory)
      limit == IF "limit" \in DOMAIN args THEN args.limit ELSE DefaultLimit
      call == [op |-> "listSessions", projPath |-> projPath, args |-> args]
  IN  /\ last' = IF SessionsThrows(projPath, limit)
                 THEN call @@ [ok |-> FALSE]
                 ELSE call @@ [ok |-> TRUE, out |-> SessionsResult(projPath, limit)]
      /\ UNCHANGED <<tables, currentSessionId, nextUuid, now>>

----------------------------------------------------------------------------
(* tool.knowledge_record_decision *)

S_rationale == <<"r","a","t","i","o","n","a","l","e">>

S_alternatives == <<"a","l","t","e","r","n","a","t","i","v","e","s">>

S_recordedAt == <<"r","e","c","o","r","d","e","d","A","t">>

\* new Date().toISOString(), at the reading of the clock
toISOString == <<"T", ToString(now)>>

\* `decision-${Date.now()}`
DecisionName == S_decision \o <<"-", ToString(now)>>

DecisionTextMax == 100

knowledge_record_decision(ctx, a) ==
  LET projPath == getProjectPath(ctx.worktree, ctx.directory)
      id == uuidv4
      content == JsonStringify(<< <<S_decision, a.decision>>,
                                  <<S_rationale, a.rationale>>,
                                  <<S_alternatives, a.alternatives>>,
                                  <<S_recordedAt, toISOString>> >>)
  IN  /\ nextUuid' = nextUuid + 1
      /\ entities' = Append(entities,
                            NewEntity(id, S_decision, DecisionName, content,
                                      NULL, projPath))
      /\ last' = [op |-> "recordDecision", projPath |-> projPath, args |-> a,
                  out |-> [success |-> TRUE, decisionId |-> id,
                           decision |-> substring(a.decision, 0, DecisionTextMax)]]
      /\ UNCHANGED <<relationships, sessions, queries, currentSessionId, now>>

----------------------------------------------------------------------------
(* tool.knowledge_summarize_session *)

S_summary == <<"s","u","m","m","a","r","y">>

S_decisions == <<"d","e","c","i","s","i","o","n","s">>

NewSession(id, projPath, summary, decisions, files, context) ==
  [id |-> id, project_path |-> projPath, start_time |-> now,
   end_time |-> NoTime, summary |-> summary, key_decisions |-> decisions,
   files_modified |-> files, context |-> context]

\* (mutant) a plain INSERT
InsertSession(rows, new) == Append(rows, new)

\* INSERT ... ON CONFLICT(id) DO UPDATE SET summary, key_decisions, files_modified
UpsertSession(rows, new) ==
  IF \E i \in 1..Len(rows) : rows[i].id = new.id
  THEN [i \in 1..Len(rows) |->
          IF rows[i].id = new.id
          THEN [rows[i] EXCEPT !.summary = new.summary,
                               !.key_decisions = new.key_decisions,
                               !.files_modified = new.files_modified]
          ELSE rows[i]]
  ELSE Append(rows, new)

knowledge_summarize_session(ctx, a) ==
  LET minted == currentSessionId = NULL
      sessionId == IF minted THEN uuidv4 ELSE currentSessionId
      projPath == getProjectPath(ctx.worktree, ctx.directory)
      context == JsonStringify(<< <<S_summary, a.summary>>,
                                  <<S_decisions, a.decisions>> >>)
  IN  /\ currentSessionId' = sessionId
      /\ nextUuid' = IF minted THEN nextUuid + 1 ELSE nextUuid
      /\ sessions' = UpsertSession(sessions,
                                   NewSession(sessionId, projPath, a.summary,
                                              a.decisions, a.files, context))
      /\ last' = [op |-> "summarizeSession", projPath |-> projPath, args |-> a,
                  out |-> [success |-> TRUE, sessionId |-> sessionId]]
      /\ UNCHANGED <<entities, relationships, queries, now>>

----------------------------------------------------------------------------
(* tool.knowledge_ask *)

AskLimit == 5

S_ArchitecturalDecisions ==
  <<"#","#"," ","A","r","c","h","i","t","e","c","t","u","r","a","l"," ",
    "D","e","c","i","s","i","o","n","s">>

\* (mutant) the query row carries the project path of the plugin instance
NewQueryOfPlugin(id, projPath, question) ==
  [id |-> id, project_path |-> projectPath, query_text |-> question,
   result_summary |-> NULL, timestamp |-> now]

S_DocumentationHeader ==
  <<"#","#"," ","D","o","c","u","m","e","n","t","a","t","i","o","n">>

NewQuery(id, projPath, question) ==
  [id |-> id, project_path |-> projPath, query_text |-> question,
   result_summary |-> NULL, timestamp |-> now]

\* the entities of a type in a project, most recently updated first
RecentOfType(projPath, type, limit) ==
  LET Matches(r) == r.project_path = projPath /\ r.type = type
      Updated(r) == r.updated_at
  IN  Limit(OrderByDesc(SelectWhere(entities, Matches), Updated), limit)

\* (mutant) no catch: a content that does not parse gives the members of
\* nothing
DecisionLineParsedOnly(content) ==
  <<"-", " ">> \o Text(JsonMember(JsonParse(content).members, S_decision))
               \o <<":", " ">>
               \o Text(JsonMember(JsonParse(content).members, S_rationale))

\* the line of one decision: its parsed decision and rationale, or, when
\* JSON.parse throws, its raw content
DecisionLine(content) ==
  LET Line(parsed) ==
        IF parsed.ok
        THEN <<"-", " ">> \o Text(JsonMember(parsed.members, S_decision))
                          \o <<":", " ">>
                          \o Text(JsonMember(parsed.members, S_rationale))
        ELSE <<"-", " ">> \o Text(content)
  IN  With(JsonParse(content), Line)

RelevantContent(projPath) ==
  LET docLines(d) == << <<"#","#","#"," ">> \o d.name,
                        substring(d.content, 0, SearchContentMax) >>
      RECURSIVE DocLines(_, _)
      DocLines(ds, i) == IF i > Len(ds) THEN <<>>
                         ELSE docLines(ds[i]) \o DocLines(ds, i + 1)
      Decisions(decisions) ==
        IF Len(decisions) > 0
        THEN <<S_ArchitecturalDecisions>>
             \o [i \in 1..Len(decisions) |-> DecisionLine(decisions[i].content)]
        ELSE <<>>
      Docs(docs) ==
        IF Len(docs) > 0 THEN <<S_DocumentationHeader>> \o DocLines(docs, 1)
        ELSE <<>>
  IN  With(RecentOfType(projPath, S_decision, AskLimit), Decisions)
      \o With(RecentOfType(projPath, S_documentation, AskLimit), Docs)

\* d.content.substring throws when a documentation entity has no content
AskThrows(projPath) ==
  LET docs == RecentOfType(projPath, S_documentation, AskLimit)
  IN  \E i \in 1..Len(docs) : docs[i].content = NULL

knowledge_ask(ctx, question) ==
  LET projPath == getProjectPath(ctx.worktree, ctx.directory)
      call == [op |-> "ask", projPath |-> projPath, question |-> question]
  IN  /\ nextUuid' = nextUuid + 1
      /\ queries' = Append(queries, NewQuery(uuidv4, projPath, question))
      /\ last' = IF AskThrows(projPath)
                 THEN call @@ [ok |-> FALSE]
                 ELSE call @@ [ok |-> TRUE,
                               out |-> [question |-> question,
                                        relevantContext |->
                                          join(RelevantContent(projPath), <<"\n">>),
                                        searchQuery |-> question,
                                        timestamp |-> toISOString]]
      /\ UNCHANGED <<entities, relationships, sessions, currentSessionId, now>>

----------------------------------------------------------------------------
(* "session.created" *)

RecentSessionsLimit == 5

RecentEntitiesLimit == 10

SecondsPerDay == 86400

S_Project == <<"P","r","o","j","e","c","t",":"," ">>

S_LastSession == <<"\n","\n","L","a","s","t"," ","s","e","s","s","i","o","n",":"," ">>

S_DaysAgo == <<" ","d","a","y","(","s",")"," ","a","g","o">>

S_LastSummary == <<"\n","L","a","s","t"," ","s","u","m","m","a","r","y",":"," ">>

S_KeyDecisionsMade ==
  <<"\n","K","e","y"," ","d","e","c","i","s","i","o","n","s"," ","m","a","d","e",":"," ">>

S_RecentEntities ==
  <<"\n","\n","R","e","c","e","n","t"," ","e","n","t","i","t","i","e","s"," ",
    "t","r","a","c","k","e","d",":">>

S_ContextHeader ==
  <<"#","#"," ","P","r","o","j","e","c","t"," ","K","n","o","w","l","e","d","g","e",
    " ","C","o","n","t","e","x","t","\n">>

RecentEntities(projPath, limit) ==
  LET InProject(r) == r.project_path = projPath
      Updated(r) == r.updated_at
  IN  Limit(OrderByDesc(SelectWhere(entities, InProject), Updated), limit)

RECURSIVE EntityLines(_)
EntityLines(rows) ==
  IF rows = <<>> THEN <<>>
  ELSE <<"\n"," "," ","-"," ","[">> \o Head(rows).type \o <<"]"," ">>
       \o Head(rows).name \o EntityLines(Tail(rows))

\* (mutant) the session surfaced is the one stored first
ContextMessageFirstStored ==
  LET InProject(r) == r.project_path = projectPath
      stored == SelectSeq(sessions, InProject)
      lastSession == stored[1]
      daysAgo == (now - lastSession.start_time) \div SecondsPerDay
      recentEntities == RecentEntities(projectPath, RecentEntitiesLimit)
  IN  S_Project \o projectPath
      \o (IF Len(stored) > 0
          THEN S_LastSession \o <<ToString(daysAgo)>> \o S_DaysAgo
               \o (IF Truthy(lastSession.summary)
                   THEN S_LastSummary \o lastSession.summary ELSE <<>>)
               \o (IF Truthy(lastSession.key_decisions)
                   THEN S_KeyDecisionsMade \o lastSession.key_decisions ELSE <<>>)
               \o (IF Len(recentEntities) > 0
                   THEN S_RecentEntities \o EntityLines(recentEntities) ELSE <<>>)
          ELSE <<>>)

ContextMessage ==
  LET recentSessions == SessionRows(projectPath, RecentSessionsLimit)
      lastSession == recentSessions[1]
      daysAgo == (now - lastSession.start_time) \div SecondsPerDay
      recentEntities == RecentEntities(projectPath, RecentEntitiesLimit)
  IN  S_Project \o projectPath
      \o (IF Len(recentSessions) > 0
          THEN S_LastSession \o <<ToString(daysAgo)>> \o S_DaysAgo
               \o (IF Truthy(lastSession.summary)
                   THEN S_LastSummary \o lastSession.summary ELSE <<>>)
               \o (IF Truthy(lastSession.key_decisions)
                   THEN S_KeyDecisionsMade \o lastSession.key_decisions ELSE <<>>)
               \o (IF Len(recentEntities) > 0
                   THEN S_RecentEntities \o EntityLines(recentEntities) ELSE <<>>)
          ELSE <<>>)

\* (mutant) the signal stores a row for the session it mints
session_created_eager ==
  /\ currentSessionId' = uuidv4
  /\ nextUuid' = nextUuid + 1
  /\ sessions' = Append(sessions,
                        NewSession(uuidv4, projectPath, NULL, NULL, NULL, NULL))
  /\ last' = [op |-> "session.created",
              context |-> <<S_ContextHeader \o ContextMessage>>]
  /\ UNCHANGED <<entities, relationships, queries, now>>

session_created ==
  /\ currentSessionId' = uuidv4
  /\ nextUuid' = nextUuid + 1
  /\ last' = [op |-> "session.created",
              context |-> <<S_ContextHeader \o ContextMessage>>]
  /\ UNCHANGED <<tables, now>>

----------------------------------------------------------------------------
(* "session.compacted" *)

S_PreviousSummary ==
  <<"#","#"," ","P","r","e","v","i","o","u","s"," ","S","e","s","s","i","o","n"," ",
    "S","u","m","m","a","r","y","\n">>

S_NoSummary ==
  <<"N","o"," ","s","u","m","m","a","r","y"," ","a","v","a","i","l","a","b","l","e">>

S_KeyDecisions == <<"#","#"," ","K","e","y"," ","D","e","c","i","s","i","o","n","s","\n">>

S_NoDecisions ==
  <<"N","o"," ","d","e","c","i","s","i","o","n","s"," ","r","e","c","o","r","d","e","d">>

\* (mutant) the SELECT without its WHERE
SessionFirst(id) == Get(sessions)

\* SELECT * FROM sessions WHERE id = ?, .get()
SessionById(id) ==
  LET Is(r) == r.id = id
  IN  Get(SelectWhere(sessions, Is))

session_compacted ==
  LET session == SessionById(currentSessionId)
  IN  /\ last' = [op |-> "session.compacted",
                  context |->
                    IF session # <<>>
                    THEN << S_PreviousSummary \o OrElse(session[1].summary, S_NoSummary),
                            S_KeyDecisions \o OrElse(session[1].key_decisions,
                                                     S_NoDecisions) >>
                    ELSE <<>>]
      /\ UNCHANGED <<tables, currentSessionId, nextUuid, now>>

----------------------------------------------------------------------------
(* "session.deleted" *)

\* (mutant) the UPDATE without its WHERE
EndEverySession(rows, id) ==
  [i \in 1..Len(rows) |-> [rows[i] EXCEPT !.end_time = now]]

\* UPDATE sessions SET end_time = datetime('now') WHERE id = ?
EndSession(rows, id) ==
  [i \in 1..Len(rows) |->
     IF rows[i].id = id THEN [rows[i] EXCEPT !.end_time = now] ELSE rows[i]]

session_deleted ==
  LET ended == EndSession(sessions, currentSessionId)
      IsCurrent(r) == r.id = currentSessionId
      session == Get(SelectWhere(ended, IsCurrent))
      parsed == JsonParse(session[1].context)
      call == [op |-> "session.deleted"]
  IN  /\ sessions' = IF Truthy(currentSessionId) THEN ended ELSE sessions
      /\ last' = IF /\ Truthy(currentSessionId)
                    /\ session # <<>>
                    /\ Truthy(session[1].context)
                    /\ parsed.ok
                 THEN call @@ [set |-> TRUE,
                               summary |-> JsonMember(parsed.members, S_summary),
                               decisions |-> JsonMember(parsed.members, S_decisions)]
                 ELSE call @@ [set |-> FALSE]
      /\ UNCHANGED <<entities, relationships, queries, currentSessionId,
                     nextUuid, now>>

----------------------------------------------------------------------------
(* "file.edited" *)

\* SELECT * FROM entities WHERE project_path = ? AND name = ?, .get()
EntityByName(projPath, name) ==
  LET Matches(r) == r.project_path = projPath /\ r.name = name
  IN  Get(SelectWhere(entities, Matches))

\* (mutant) the UPDATE changes no row
TouchNoEntity(rows, id) == rows

\* (mutant) the UPDATE stamps created_at as well
TouchEntityAnew(rows, id) ==
  [i \in 1..Len(rows) |->
     IF rows[i].id = id
     THEN [rows[i] EXCEPT !.updated_at = now, !.created_at = now] ELSE rows[i]]

\* UPDATE entities SET updated_at = datetime('now') WHERE id = ?
TouchEntity(rows, id) ==
  [i \in 1..Len(rows) |->
     IF rows[i].id = id THEN [rows[i] EXCEPT !.updated_at = now] ELSE rows[i]]

file_edited(input) ==
  LET normalizedPath == normalize(input.filePath)
      existingEntity == EntityByName(projectPath, normalizedPath)
  IN  /\ entities' = IF existingEntity # <<>>
                     THEN TouchEntity(entities, existingEntity[1].id)
                     ELSE entities
      /\ last' = [op |-> "file.edited", filePath |-> input.filePath]
      /\ UNCHANGED <<relationships, sessions, queries, currentSessionId,
                     nextUuid, now>>

----------------------------------------------------------------------------
(* "tool.execute.after", the read tool *)

ReadContentMax == 1000

FileType(filePath) ==
  IF endsWith(filePath, <<".","t","s">>) \/ endsWith(filePath, <<".","t","s","x">>)
  THEN <<"t","y","p","e","s","c","r","i","p","t">>
  ELSE IF endsWith(filePath, <<".","j","s">>) \/ endsWith(filePath, <<".","j","s","x">>)
       THEN <<"j","a","v","a","s","c","r","i","p","t">>
       ELSE IF endsWith(filePath, <<".","j","s","o","n">>)
            THEN <<"c","o","n","f","i","g">>
            ELSE <<"f","i","l","e">>

gitCommands == <<S_git_log, S_git_diff, S_git_status, S_git_show>>

S_decisionColon == <<"d","e","c","i","s","i","o","n",":">>

S_ARCHITECTURE == <<"A","R","C","H","I","T","E","C","T","U","R","E",".","m","d">>

S_SectionMark == <<"#","#"," ">>

RecentCaptureLimit == 5

DecisionLinesBefore == 2

DecisionLinesAfter == 3

SectionLines == 10

\* Array.prototype.slice(a, b), for 0 <= a
slice(arr, a, b) == SubSeq(arr, a + 1, Min(b, Len(arr)))

\* String.prototype.trim
trim(s) ==
  LET White(c) == c \in {" ", "\n", "\t", "\r"}
      Inked == {i \in 1..Len(s) : ~White(s[i])}
  IN  IF Inked = {} THEN <<>>
      ELSE SubSeq(s, CHOOSE i \in Inked : \A j \in Inked : i <= j,
                     CHOOSE i \in Inked : \A j \in Inked : i >= j)

\* String.prototype.replace(pat, rep) for a string pat: the first occurrence
replace(s, pat, rep) ==
  LET At == {i \in 0..(Len(s) - Len(pat)) : SubSeq(s, i + 1, i + Len(pat)) = pat}
  IN  IF At = {} THEN s
      ELSE LET i == CHOOSE k \in At : \A j \in At : k <= j
           IN  SubSeq(s, 1, i) \o rep \o SubSeq(s, i + Len(pat) + 1, Len(s))

\* the rows the lines holding 'decision:' give: the line, the two before it
\* and the two after it
DecisionRows(content) ==
  LET Rows(lines) ==
        LET Holds(i) == includes(lines[i], S_decisionColon)
            at == SelectSeq([i \in 1..Len(lines) |-> i], Holds)
        IN  [k \in 1..Len(at) |->
               [type |-> S_decision, name |-> DecisionName,
                content |-> join(slice(lines,
                                       Max(0, (at[k] - 1) - DecisionLinesBefore),
                                       (at[k] - 1) + DecisionLinesAfter),
                                 <<"\n">>)]]
  IN  With(split(content, "\n"), Rows)

\* the rows the lines opening with '## ' give: the header line and the nine
\* lines after it, under the name of the header
SectionRows(content) ==
  LET Rows(lines) ==
        LET Opens(i) == startsWith(lines[i], S_SectionMark)
            at == SelectSeq([i \in 1..Len(lines) |-> i], Opens)
        IN  [k \in 1..Len(at) |->
               [type |-> S_documentation,
                name |-> trim(replace(lines[at[k]], S_SectionMark, <<>>)),
                content |-> join(slice(lines, at[k] - 1,
                                       Min(Len(lines), (at[k] - 1) + SectionLines)),
                                 <<"\n">>)]]
  IN  With(split(content, "\n"), Rows)

\* entities.forEach(...): the rows inserted, in order, and whether the loop
\* ran to its end.  The source text closes one brace too many after the
\* README block (line 226) and does not parse as it stands; it parses with
\* the README block inside the 'decision:' block (nested) or after it, and
\* the two readings differ for an entity that holds no 'decision:'.  After
\* the 'decision:' block, entity.content.split throws on a null content.
RECURSIVE CaptureRows(_, _, _)
CaptureRows(recent, i, nested) ==
  IF i > Len(recent) THEN [rows |-> <<>>, ok |-> TRUE]
  ELSE LET entity == recent[i]
           hasDecision == /\ Truthy(entity.content)
                          /\ includes(entity.content, S_decisionColon)
           isDocument == \/ endsWith(entity.name, S_README)
                         \/ endsWith(entity.name, S_ARCHITECTURE)
           sections == isDocument /\ (nested => hasDecision)
           decisionRows == IF hasDecision THEN DecisionRows(entity.content)
                           ELSE <<>>
           Then(rest) ==
             [rows |-> decisionRows \o SectionRows(entity.content) \o rest.rows,
              ok |-> rest.ok]
           Skip(rest) == [rows |-> decisionRows \o rest.rows, ok |-> rest.ok]
       IN  IF sections /\ entity.content = NULL
           THEN [rows |-> decisionRows, ok |-> FALSE]
           ELSE IF sections THEN With(CaptureRows(recent, i + 1, nested), Then)
                ELSE With(CaptureRows(recent, i + 1, nested), Skip)

\* (mutant) every read of a file inserts an entity
ReadCaptureAlways(input, output) ==
  [rows |-> << [type |-> FileType(input.args.filePath),
                name |-> normalize(input.args.filePath),
                content |-> substring(output.result, 0, ReadContentMax)] >>,
   ok |-> TRUE]

\* the read of a file: the file becomes an entity unless its path names one
ReadCapture(input, output) ==
  LET filePath == IF "filePath" \in DOMAIN input.args THEN input.args.filePath
                  ELSE UNDEFINED
      normalizedPath == normalize(filePath)
  IN  IF Truthy(filePath) /\ EntityByName(projectPath, normalizedPath) = <<>>
      THEN [rows |-> << [type |-> FileType(filePath), name |-> normalizedPath,
                         content |-> substring(output.result, 0, ReadContentMax)] >>,
            ok |-> TRUE]
      ELSE [rows |-> <<>>, ok |-> TRUE]

\* a git command: decisions and documentation sections are drawn from the
\* five entities updated last
BashCapture(input, nested) ==
  LET command == IF "command" \in DOMAIN input.args
                 THEN OrElse(input.args.command, <<>>) ELSE <<>>
  IN  IF \E c \in 1..Len(gitCommands) : includes(command, gitCommands[c])
      THEN CaptureRows(RecentEntities(projectPath, RecentCaptureLimit), 1, nested)
      ELSE [rows |-> <<>>, ok |-> TRUE]

\* input is { tool, args: { filePath } } or { tool, args: { command } },
\* output is { result }; ok is FALSE when the handler throws, and the rows
\* inserted before the throw stay
tool_execute_after(input, output) ==
  \E nested \in BOOLEAN :
    LET Insert(captured) ==
          /\ entities' =
               entities \o
               [k \in 1..Len(captured.rows) |->
                  NewEntity(<<"uuid", ToString(nextUuid + (k - 1))>>,
                            captured.rows[k].type, captured.rows[k].name,
                            captured.rows[k].content, NULL, projectPath)]
          /\ nextUuid' = nextUuid + Len(captured.rows)
          /\ last' = [op |-> "tool.execute.after", input |-> input,
                      output |-> output, ok |-> captured.ok]
        Nothing == [rows |-> <<>>, ok |-> TRUE]
    IN  /\ \E captured \in
               { IF ~Truthy(output.result) THEN Nothing
                 ELSE IF input.tool = S_read THEN ReadCapture(input, output)
                 ELSE IF input.tool = S_bash THEN BashCapture(input, nested)
                 ELSE Nothing } : Insert(captured)
        /\ UNCHANGED <<relationships, sessions, queries, currentSessionId, now>>

----------------------------------------------------------------------------
(* The host.  Calls are made one at a time (the plugin owns one storage     *)
(* connection and runs each handler to completion): a call starts when the *)
(* result of the one before has been taken.                                *)

Return ==
  /\ last # Idle
  /\ last' = Idle
  /\ UNCHANGED <<tables, currentSessionId, nextUuid, now>>

\* a call A, made when the host is idle, within the bounds of the model
Within(A, maxUuid) ==
  last = Idle /\ A /\ nextUuid' <= maxUuid + 1 /\ now' <= MaxTime

Next ==
  \/ Return
  \/ Within(Tick, MaxUuid)
  \/ \E ctx \in Contexts, a \in EntityArgs :
       Within(knowledge_add_entity(ctx, a), MaxUuid)
  \/ \E ctx \in Contexts, st \in ConnectArgs :
       Within(knowledge_connect(ctx, st[1], st[2], S_depends_on), MaxUuid)
  \/ \E ctx \in Contexts, a \in SearchArgs :
       Within(knowledge_search(ctx, a), MaxUuid)
  \/ \E ctx \in Contexts, a \in GraphArgs :
       Within(knowledge_graph(ctx, a), MaxUuid)
  \/ \E ctx \in Contexts, a \in SessionsArgs :
       Within(knowledge_sessions(ctx, a), MaxUuid)
  \/ \E ctx \in Contexts, a \in DecisionArgs :
       Within(knowledge_record_decision(ctx, a), MaxUuid)
  \/ \E ctx \in Contexts, a \in SummaryArgs :
       Within(knowledge_summarize_session(ctx, a), MaxUuid)
  \/ \E ctx \in Contexts, q \in Questions :
       Within(knowledge_ask(ctx, q), MaxUuid)
  \/ Within(session_created, MaxUuid)
  \/ Within(session_compacted, MaxUuid)
  \/ Within(session_deleted, MaxUuid)
  \/ \E f \in FilePaths : Within(file_edited([filePath |-> f]), MaxUuid)
  \/ \E r \in ToolRuns :
       Within(tool_execute_after([tool |-> r.tool, args |-> r.args],
                                 [result |-> r.result]), MaxUuid)

\* every hook and every tool
Spec == KnowledgeGraphPlugin /\ [][Next]_vars

\* the tools on entities and relationships, at one reading of the clock
NextGraph ==
  \/ Return
  \/ \E ctx \in Contexts, a \in EntityArgs :
       Within(knowledge_add_entity(ctx, a), MaxGraphUuid)
  \/ \E ctx \in Contexts, st \in ConnectArgs :
       Within(knowledge_connect(ctx, st[1], st[2], S_depends_on), MaxGraphUuid)
  \/ \E ctx \in Contexts, a \in SearchArgs :
       Within(knowledge_search(ctx, a), MaxGraphUuid)
  \/ \E ctx \in Contexts, a \in GraphArgs :
       Within(knowledge_graph(ctx, a), MaxGraphUuid)

SpecGraph == KnowledgeGraphPlugin /\ [][NextGraph]_vars

\* the operations on sessions
NextSession ==
  \/ Return
  \/ Within(Tick, MaxSessionUuid)
  \/ \E ctx \in Contexts, a \in SessionsArgs :
       Within(knowledge_sessions(ctx, a), MaxSessionUuid)
  \/ \E ctx \in Contexts, a \in SummaryArgs :
       Within(knowledge_summarize_session(ctx, a), MaxSessionUuid)
  \/ Within(session_created, MaxSessionUuid)
  \/ Within(session_compacted, MaxSessionUuid)
  \/ Within(session_deleted, MaxSessionUuid)

SpecSession == KnowledgeGraphPlugin /\ [][NextSession]_vars

\* what the plugin captures by itself: file reads, file edits, git commands
NextCapture ==
  \/ Return
  \/ Within(Tick, MaxCaptureUuid)
  \/ \E f \in FilePaths : Within(file_edited([filePath |-> f]), MaxCaptureUuid)
  \/ \E r \in ToolRuns :
       Within(tool_execute_after([tool |-> r.tool, args |-> r.args],
                                 [result |-> r.result]), MaxCaptureUuid)

SpecCapture == KnowledgeGraphPlugin /\ [][NextCapture]_vars

----------------------------------------------------------------------------
(* What the claims speak of *)

Projects == {P_p, P_q}

\* the rows of a project in a table
RowsOf(rows, p) == {i \in 1..Len(rows) : rows[i].project_path = p}

\* the entities of a project
EntitiesOf(p) == RowsOf(entities, p)

\* a step that is the call of the operation op
IsCall(op) == last = Idle /\ last'.op = op

\* the lookup of connect finds a row for the identifier
Resolves(p, identifier) ==
  \E i \in EntitiesOf(p) :
    entities[i].id = identifier \/ entities[i].name = Wrapped(identifier)

----------------------------------------------------------------------------
(* C1 *)

\* C1 (as claimed): connect resolves an identifier that is the exact name of
\* an entity of the caller's project: after addEntity("UserService") and
\* addEntity("Database"), connect("UserService", "Database", "depends_on")
\* succeeds.  The code compares the name with '%UserService%' by equality
\* and the call fails.
C1_ConnectByExactName ==
  ( /\ last.op = "connect"
    /\ \E i \in EntitiesOf(last.projPath) : entities[i].name = last.source
    /\ \E i \in EntitiesOf(last.projPath) : entities[i].name = last.target )
  => last.ok

----------------------------------------------------------------------------
(* C2 *)

\* C2: connect fails exactly when the source or the target does not resolve
\* in the caller's project; the error text names the identifiers that did
\* not resolve and no other; a failed connect leaves every table as it was.
C2_ConnectNotFound ==
  [][ IsCall("connect") =>
        LET c == last'
            noSource == ~Resolves(c.projPath, c.source)
            noTarget == ~Resolves(c.projPath, c.target)
        IN  /\ c.ok = ~(noSource \/ noTarget)
            /\ ~c.ok =>
                 /\ c.error = S_CouldNotFind
                                \o (IF noSource THEN c.source ELSE <<>>)
                                \o <<" ">>
                                \o (IF noTarget THEN c.target ELSE <<>>)
                 /\ relationships' = relationships
                 /\ entities' = entities
      ]_vars

\* a connect failed on its source alone: the target resolved
C2_Witness ==
  /\ last.op = "connect"
  /\ ~last.ok
  /\ ~Resolves(last.projPath, last.source)
  /\ Resolves(last.projPath, last.target)
  /\ last.error = S_CouldNotFind \o last.source \o <<" ">>

----------------------------------------------------------------------------
(* C3 *)

\* C3 (as claimed): an identifier that is a part of the name of an entity of
\* the caller's project, and no entity's id, resolves to that entity, so
\* connect("User", "User") succeeds where an entity is named "UserService".
C3_ConnectBySubstring ==
  ( /\ last.op = "connect"
    /\ \E i \in EntitiesOf(last.projPath) :
         includes(entities[i].name, last.source) /\ entities[i].name # last.source
    /\ \E i \in EntitiesOf(last.projPath) :
         includes(entities[i].name, last.target) /\ entities[i].name # last.target
    /\ \A i \in 1..Len(entities) :
         entities[i].id # last.source /\ entities[i].id # last.target )
  => last.ok

----------------------------------------------------------------------------
(* C4 *)

\* C4: every addEntity appends one row with an id no row had, leaves every
\* row there was as it was (no deduplication by name, no update), and so
\* raises the entity count of its project by exactly one
C4_AddAlwaysInserts ==
  [][ IsCall("addEntity") =>
        LET p == last'.projPath
            n == Len(entities)
        IN  /\ Len(entities') = n + 1
            /\ SubSeq(entities', 1, n) = entities
            /\ \A i \in 1..n : entities[i].id # entities'[n + 1].id
            /\ entities'[n + 1].id = last'.out.entityId
            /\ entities'[n + 1].name = last'.args.name
            /\ Cardinality(RowsOf(entities', p)) = Cardinality(RowsOf(entities, p)) + 1
      ]_vars

\* addEntity was called with a (projectPath, name) that a row already had:
\* two rows of that project and name, of different ids
C4_Witness ==
  /\ last.op = "addEntity"
  /\ \E i, j \in 1..Len(entities) :
       /\ i < j
       /\ entities[j].id = last.out.entityId
       /\ entities[i].name = entities[j].name
       /\ entities[i].project_path = entities[j].project_path
       /\ entities[i].id # entities[j].id

----------------------------------------------------------------------------
(* C5 *)

\* Many entities of one project and name, so that a search meets its limit
MaxBulkUuid == 11

BulkContext == [worktree |-> P_p, directory |-> P_q]

BulkEntity ==
  [name |-> S_UserService, type |-> S_component, content |-> S_auth,
   metadata |-> UNDEFINED]

NextBulk ==
  \/ Return
  \/ Within(Tick, MaxBulkUuid)
  \/ Within(knowledge_add_entity(BulkContext, BulkEntity), MaxBulkUuid)
  \/ Within(file_edited([filePath |-> S_UserService]), MaxBulkUuid)
  \/ \E ctx \in Contexts, a \in SearchArgs :
       Within(knowledge_search(ctx, a), MaxBulkUuid)

SpecBulk == KnowledgeGraphPlugin /\ [][NextBulk]_vars

\* the limit a search ran with: 10 when the call gave none
SearchLimitOf(call) ==
  IF "limit" \in DOMAIN call.args THEN call.args.limit ELSE 10

SearchIsOrdered(out) ==
  /\ out.count = Len(out.results)
  /\ \A i, j \in 1..Len(out.results) :
       i < j => out.results[i].updated >= out.results[j].updated

\* C5: for every limit, the results of search are ordered by updatedAt
\* descending, count is their number, and count never exceeds limit (10 when
\* the limit is omitted; a limit below 0 admits no result)
C5_SearchWithinAnyLimit ==
  last.op = "search" =>
    /\ SearchIsOrdered(last.out)
    /\ last.out.count <= Max(SearchLimitOf(last), 0)

\* The part of C5 that holds: the results of search are ordered by updatedAt
\* descending and count is their number; count never exceeds a limit that is
\* not negative (10 when the limit is omitted)
C5_SearchWithinLimit ==
  last.op = "search" =>
    /\ SearchIsOrdered(last.out)
    /\ SearchLimitOf(last) >= 0 => last.out.count <= SearchLimitOf(last)

\* a search with no limit given met the default: more than 10 entities
\* matched, 10 came back, and not all of one updatedAt
C5_Witness ==
  /\ last.op = "search"
  /\ "limit" \notin DOMAIN last.args
  /\ last.args.query = S_User
  /\ Cardinality(EntitiesOf(last.projPath)) > 10
  /\ last.out.count = 10
  /\ last.out.results[1].updated > last.out.results[10].updated

----------------------------------------------------------------------------
(* C6 *)

\* C6: summarizeSession called while the current session id has a row is an
\* upsert: no session row is added, in any project; the call returns the
\* current session id, which stays the current one; and the row's summary,
\* keyDecisions and filesModified are the arguments of this call
C6_SummarizeUpserts ==
  [][ ( /\ IsCall("summarizeSession")
        /\ \E i \in 1..Len(sessions) : sessions[i].id = currentSessionId )
      =>
        /\ Len(sessions') = Len(sessions)
        /\ \A p \in Projects :
             Cardinality(RowsOf(sessions', p)) = Cardinality(RowsOf(sessions, p))
        /\ last'.out.sessionId = currentSessionId
        /\ currentSessionId' = currentSessionId
        /\ \A i \in 1..Len(sessions) :
             sessions[i].id = currentSessionId =>
               /\ sessions'[i].id = currentSessionId
               /\ sessions'[i].summary = last'.args.summary
               /\ sessions'[i].key_decisions = last'.args.decisions
               /\ sessions'[i].files_modified = last'.args.files
      ]_vars

\* a second summarizeSession replaced what the first one stored: the row
\* holds this call's summary, and its context blob still the first call's
C6_Witness ==
  /\ last.op = "summarizeSession"
  /\ Len(sessions) = 1
  /\ sessions[1].id = last.out.sessionId
  /\ sessions[1].summary = last.args.summary
  /\ sessions[1].context #
       JsonStringify(<< <<S_summary, last.args.summary>>,
                        <<S_decisions, last.args.decisions>> >>)

----------------------------------------------------------------------------
(* C7 *)

\* C7 (as claimed): an entity written by addEntity with the metadata string
\* m comes back from search with the metadata m
C7_SearchReturnsMetadata ==
  last.op = "search" =>
    \A k \in 1..Len(last.out.results) :
      \A i \in 1..Len(entities) :
        entities[i].id = last.out.results[k].id =>
          /\ "metadata" \in DOMAIN last.out.results[k]
          /\ last.out.results[k].metadata = entities[i].metadata

\* C7 (amended): an entity written by addEntity with a metadata string m that
\* is not empty comes back from exportGraph, as a node whose metadata is m
\* unmodified (a result of search carries no metadata, and an empty metadata
\* string is stored as null)
C7_GraphReturnsMetadata ==
  [][ (IsCall("addEntity") /\ Truthy(last'.args.metadata)) =>
        \E p \in Projects :
          /\ p = last'.projPath
          /\ \E k \in 1..Len(GraphNodes(p, UNDEFINED)') :
               /\ GraphNodes(p, UNDEFINED)'[k].id = last'.out.entityId
               /\ GraphNodes(p, UNDEFINED)'[k].metadata = last'.args.metadata
      ]_vars

\* exportGraph returned the metadata string an addEntity wrote
C7_Witness ==
  /\ last.op = "exportGraph"
  /\ \E k \in 1..Len(last.out.nodes) : last.out.nodes[k].metadata = S_layer

----------------------------------------------------------------------------
(* C8 *)

\* C8: the edges of exportGraph are the relationships of the caller's
\* project, all of them, whatever the entityType and the depth; entityType
\* restricts the nodes alone, to the entities of that type; and the result
\* is the same at every depth
C8_GraphEdgesComplete ==
  last.op = "exportGraph" =>
    LET p == last.projPath
        t == last.args.entityType
        out == last.out
    IN  /\ Len(out.edges) = Cardinality(RowsOf(relationships, p))
        /\ {out.edges[k].id : k \in 1..Len(out.edges)}
             = {relationships[i].id : i \in RowsOf(relationships, p)}
        /\ {out.nodes[k].id : k \in 1..Len(out.nodes)}
             = {entities[i].id : i \in {j \in EntitiesOf(p) :
                                          Truthy(t) => entities[j].type = t}}
        /\ \A d \in 1..3 : GraphResult(p, t, d) = out

\* exportGraph, asked for the components at depth 2, returned an edge whose
\* two ends are no node of the result
C8_Witness ==
  /\ last.op = "exportGraph"
  /\ Truthy(last.args.entityType)
  /\ "depth" \in DOMAIN last.args
  /\ \E k \in 1..Len(last.out.edges) :
       \A n \in 1..Len(last.out.nodes) :
         /\ last.out.nodes[n].label # last.out.edges[k].source
         /\ last.out.nodes[n].label # last.out.edges[k].target

----------------------------------------------------------------------------
(* C9 *)

\* C9: the source and the target of every relationship are ids of entities
\* of the relationship's project; so the source and the target of every edge
\* of exportGraph are labels of nodes of the unfiltered exportGraph of the
\* same project
C9_ReferentialIntegrity ==
  /\ \A r \in 1..Len(relationships) :
       /\ \E i \in EntitiesOf(relationships[r].project_path) :
            entities[i].id = relationships[r].source_id
       /\ \E i \in EntitiesOf(relationships[r].project_path) :
            entities[i].id = relationships[r].target_id
  /\ \A p \in Projects :
       LET out == GraphResult(p, UNDEFINED, DefaultDepth)
       IN  \A k \in 1..Len(out.edges) :
             /\ \E n \in 1..Len(out.nodes) : out.nodes[n].label = out.edges[k].source
             /\ \E n \in 1..Len(out.nodes) : out.nodes[n].label = out.edges[k].target

\* a connect succeeded while the other project held entities too
C9_Witness ==
  /\ last.op = "connect"
  /\ last.ok
  /\ Len(relationships) > 0
  /\ \E p \in Projects : p # last.projPath /\ EntitiesOf(p) # {}

----------------------------------------------------------------------------
(* C10 *)

\* what the reads return in a project
ReadsOf(p) ==
  << [a \in SearchArgs |-> SearchResult(p, a.query, a.type, SearchLimitOf([args |-> a]))],
     [a \in GraphArgs |-> GraphResult(p, a.entityType, DefaultDepth)],
     [n \in {1, DefaultLimit} |->
        IF SessionsThrows(p, n) THEN <<>> ELSE <<SessionsResult(p, n)>>],
     RelevantContent(p) >>

\* the project a call acts in: the one its context names, or, for a hook,
\* the one of the plugin instance
ScopeOf(call) ==
  IF "projPath" \in DOMAIN call THEN call.projPath ELSE projectPath

\* C10 (as claimed): adding, touching or connecting entities, summarizing a
\* session or asking a question in one project changes no result of search,
\* exportGraph, listSessions or ask in another project
C10_ReadIsolation ==
  [][ ( /\ last = Idle
        /\ last'.op \in {"addEntity", "recordDecision", "connect",
                         "summarizeSession", "ask", "file.edited",
                         "tool.execute.after"} )
      => \A p \in Projects : p # ScopeOf(last') => ReadsOf(p)' = ReadsOf(p)
    ]_vars


----------------------------------------------------------------------------
(* C11 *)

MaxReadUuid == 3

\* a read result longer than the content an entity keeps
S_LongText == [i \in 1..(ReadContentMax + 1) |-> "x"]

\* successful reads: each path, raw or normalized, with each result
ReadRuns ==
  { [tool |-> S_read, args |-> [filePath |-> f], result |-> r]
      : f \in FilePaths \cup {S_README}, r \in {S_auth, S_store, S_LongText} }

\* file reads alone, at several readings of the clock
NextRead ==
  \/ Return
  \/ Within(Tick, MaxReadUuid)
  \/ \E r \in ReadRuns :
       Within(tool_execute_after([tool |-> r.tool, args |-> r.args],
                                 [result |-> r.result]), MaxReadUuid)

SpecRead == KnowledgeGraphPlugin /\ [][NextRead]_vars

\* a step that is a successful read signal
IsRead == IsCall("tool.execute.after") /\ last'.input.tool = S_read
            /\ Truthy(last'.output.result)

\* C11: under read signals alone no two entities share (projectPath,
\* normalizedPath); a read of a path no entity is named after appends one
\* entity named by the normalized path whose content is the first 1000
\* characters of the result; a read of a path that names an entity leaves
\* the entities, and so the stored content, as they were.
C11_ReadCapturesOnce ==
  [][ /\ \A i, j \in 1..Len(entities') :
           ( /\ entities'[i].project_path = entities'[j].project_path
             /\ entities'[i].name = entities'[j].name ) => i = j
      /\ IsRead =>
           LET result == last'.output.result
               normalizedPath == normalize(last'.input.args.filePath)
               had == \E i \in EntitiesOf(projectPath) :
                        entities[i].name = normalizedPath
               n == Len(entities)
           IN  /\ last'.ok
               /\ had => entities' = entities
               /\ ~had =>
                    /\ Len(entities') = n + 1
                    /\ SubSeq(entities', 1, n) = entities
                    /\ entities'[n + 1].name = normalizedPath
                    /\ entities'[n + 1].project_path = projectPath
                    /\ entities'[n + 1].content
                         = SubSeq(result, 1, Min(Len(result), ReadContentMax))
    ]_vars

\* a read of a path whose entity keeps the 1000 characters of an earlier,
\* longer result: the later read brought another result
C11_Witness ==
  /\ last.op = "tool.execute.after"
  /\ last.input.tool = S_read
  /\ last.output.result = S_auth
  /\ \E i \in EntitiesOf(projectPath) :
       /\ entities[i].name = normalize(last.input.args.filePath)
       /\ Len(entities[i].content) = ReadContentMax
       /\ Len(entities) > 1


----------------------------------------------------------------------------
(* C12 *)

\* the rows of the instance's project named by the normalized path
NamedBy(filePath) ==
  {i \in EntitiesOf(projectPath) : entities[i].name = normalize(filePath)}

\* C12 (as claimed): a successful read of a path that names an entity sets
\* updatedAt of that entity to the time of the read.  The read branch only
\* looks the entity up; the row keeps the updatedAt it had.
C12_ReadRefreshes ==
  [][ (IsRead /\ NamedBy(last'.input.args.filePath) # {}) =>
        \A i \in NamedBy(last'.input.args.filePath) :
          entities'[i].updated_at = now'
    ]_vars

\* C12 (amended): when an entity exists for (projectPath, normalizedPath), a
\* file-edited signal for the path inserts nothing, sets updatedAt of the
\* first such row to the time of the signal and changes nothing else, so no
\* entity of the project is updated later than it; a read signal for the
\* path leaves every row, its updatedAt included, as it was.
C12_EditRefreshes ==
  [][ /\ (IsCall("file.edited") /\ NamedBy(last'.filePath) # {}) =>
           LET named == NamedBy(last'.filePath)
               first == CHOOSE i \in named : \A j \in named : i <= j
           IN  /\ Len(entities') = Len(entities)
               /\ entities' = [entities EXCEPT ![first].updated_at = now']
               /\ \A j \in 1..Len(entities') :
                    entities'[j].updated_at <= entities'[first].updated_at
      /\ (IsRead /\ NamedBy(last'.input.args.filePath) # {}) =>
           entities' = entities
    ]_vars

\* an edit of a file after the clock advanced: its entity is updated later
\* than it was created, and later than another entity
C12_Witness ==
  /\ last.op = "file.edited"
  /\ \E i \in NamedBy(last.filePath) :
       /\ entities[i].updated_at = now
       /\ entities[i].created_at < now
       /\ \E j \in 1..Len(entities) : entities[j].updated_at < now


----------------------------------------------------------------------------
(* C13 *)

MaxDecideUuid == 7

S_UseJwt == <<"U","s","e"," ","\"","j","w","t","\"">>

S_stateless == <<"s","t","a","t","e","l","e","s","s">>

\* the decisions recorded: two that differ, one of them with quotes in it
DecideArgs ==
  { [decision |-> S_UsePostgreSQL, rationale |-> S_ACID, alternatives |-> UNDEFINED],
    [decision |-> S_UseJwt, rationale |-> S_stateless, alternatives |-> S_User] }

\* decisions recorded and questions asked in one project
NextDecide ==
  \/ Return
  \/ Within(Tick, MaxDecideUuid)
  \/ \E a \in DecideArgs :
       Within(knowledge_record_decision(BulkContext, a), MaxDecideUuid)
  \/ \E q \in Questions :
       Within(knowledge_ask(BulkContext, q), MaxDecideUuid)

SpecDecide == KnowledgeGraphPlugin /\ [][NextDecide]_vars

\* the row the last recordDecision wrote records the decision of a
RecordedLast(a, projPath) ==
  /\ entities # <<>>
  /\ entities[Len(entities)].project_path = projPath
  /\ entities[Len(entities)].type = S_decision
  /\ includes(entities[Len(entities)].content, JsonString(a.decision))

\* C13 (as claimed): an ask that follows recordDecision(d, r), with nothing
\* recorded in between, returns a relevantContext that contains "d: r",
\* whatever the question.  ask reads the five decisions updated last; when
\* five decisions carry the updatedAt of the new one, the new one is the
\* sixth and is left out.
C13_AskReturnsLastDecision ==
  [][ IsCall("ask") =>
        \A a \in DecideArgs :
          RecordedLast(a, last'.projPath) =>
            /\ last'.ok
            /\ includes(last'.out.relevantContext,
                        a.decision \o <<":", " ">> \o a.rationale)
    ]_vars


----------------------------------------------------------------------------
(* C14 *)

\* no session row is stored for the current session id
NoCurrentRow == \A i \in 1..Len(sessions) : sessions[i].id # currentSessionId

\* C14: a session-deleted signal that finds a row for the current session
\* id sets the endTime of that row to the time of the signal and changes
\* nothing else in the sessions; a row is stored with a null endTime, and
\* no other step changes an endTime.
C14_DeleteStampsEndTime ==
  [][ /\ (IsCall("session.deleted") /\ ~NoCurrentRow) =>
           /\ now' # NoTime
           /\ sessions' = [i \in 1..Len(sessions) |->
                             IF sessions[i].id = currentSessionId
                             THEN [sessions[i] EXCEPT !.end_time = now']
                             ELSE sessions[i]]
      /\ \A i \in 1..Len(sessions') :
           IF i > Len(sessions) THEN sessions'[i].end_time = NoTime
           ELSE sessions'[i].end_time # sessions[i].end_time =>
                  IsCall("session.deleted") /\ sessions[i].id = currentSessionId
    ]_vars

\* the current session was ended; the session before it was not
C14_Witness ==
  /\ last.op = "session.deleted"
  /\ \E i, j \in 1..Len(sessions) :
       /\ sessions[i].id = currentSessionId
       /\ sessions[i].end_time = now
       /\ sessions[j].id # currentSessionId
       /\ sessions[j].end_time = NoTime

----------------------------------------------------------------------------
(* C15 *)

\* C15: a session-compacted or session-deleted signal that finds no row for
\* the current session id (none minted, or minted and never summarized)
\* leaves the four tables as they were, pushes no context and sets no
\* summary and no decisions.
C15_SignalWithoutRowIsNoOp ==
  [][ ( /\ IsCall("session.compacted") \/ IsCall("session.deleted")
        /\ NoCurrentRow ) =>
        /\ tables' = tables
        /\ IsCall("session.compacted") => last'.context = <<>>
        /\ IsCall("session.deleted") => ~last'.set
    ]_vars

\* a session was minted after another was stored, and compacted before
\* any summary of it
C15_Witness ==
  /\ last.op = "session.compacted"
  /\ currentSessionId # NULL
  /\ NoCurrentRow
  /\ sessions # <<>>

----------------------------------------------------------------------------
(* C16 *)

\* C16 (as claimed): every tool call but connect returns a result.
\* listSessions runs JSON.parse on the files text summarizeSession stored as
\* it was given, and throws on a text that is no JSON.
C16_OnlyConnectFails ==
  last.op \in {"search", "addEntity", "exportGraph", "listSessions",
               "recordDecision", "summarizeSession", "ask"}
    => "out" \in DOMAIN last

----------------------------------------------------------------------------
(* C18 *)

\* the ids uuidv4() has yielded
Minted == { <<"uuid", ToString(k)>> : k \in 1..(nextUuid - 1) }

\* C18: a session-created signal takes for the current session an id never
\* minted before and leaves the four tables as they were; the first
\* summarizeSession after it appends the row of that id and returns that id;
\* no step but summarizeSession adds a session row.
C18_CreatedMintsInMemory ==
  [][ /\ IsCall("session.created") =>
           /\ tables' = tables
           /\ currentSessionId' # NULL
           /\ currentSessionId' \notin Minted
           /\ \A i \in 1..Len(sessions') : sessions'[i].id # currentSessionId'
      /\ (IsCall("summarizeSession") /\ currentSessionId # NULL /\ NoCurrentRow) =>
           /\ last'.out.sessionId = currentSessionId
           /\ currentSessionId' = currentSessionId
           /\ Len(sessions') = Len(sessions) + 1
           /\ SubSeq(sessions', 1, Len(sessions)) = sessions
           /\ sessions'[Len(sessions')].id = currentSessionId
      /\ ~IsCall("summarizeSession") => Len(sessions') = Len(sessions)
    ]_vars

\* the summary of a session minted by a signal after another session was
\* stored: the second row carries the id the signal minted
C18_Witness ==
  /\ last.op = "summarizeSession"
  /\ Len(sessions) = 2
  /\ sessions[2].id = currentSessionId
  /\ last.out.sessionId = currentSessionId


----------------------------------------------------------------------------
(* C17 *)

MaxRestartUuid == 4

\* one project's tools on the four tables, across restarts of the process,
\* at one reading of the clock
NextRestart ==
  \/ Return
  \/ Within(Restart, MaxRestartUuid)
  \/ Within(knowledge_add_entity(BulkContext, BulkEntity), MaxRestartUuid)
  \/ \E st \in ConnectArgs :
       Within(knowledge_connect(BulkContext, st[1], st[2], S_depends_on),
              MaxRestartUuid)
  \/ \E a \in SummaryArgs :
       Within(knowledge_summarize_session(BulkContext, a), MaxRestartUuid)
  \/ \E q \in Questions : Within(knowledge_ask(BulkContext, q), MaxRestartUuid)

SpecRestart == KnowledgeGraphPlugin /\ [][NextRestart]_vars

\* C17: loading the plugin again on an existing store leaves every row of
\* the four tables as it was and sets the current session id to none; a
\* summarizeSession made while the current session id is none appends a row
\* with an id never minted before and leaves the rows there were as they
\* were.
C17_RestartKeepsStore ==
  [][ /\ IsCall("restart") =>
           /\ tables' = tables
           /\ currentSessionId' = NULL
      /\ (IsCall("summarizeSession") /\ currentSessionId = NULL) =>
           /\ Len(sessions') = Len(sessions) + 1
           /\ SubSeq(sessions', 1, Len(sessions)) = sessions
           /\ sessions'[Len(sessions')].id \notin Minted
           /\ sessions'[Len(sessions')].id = last'.out.sessionId
    ]_vars

\* a session summarized after a restart beside the session summarized
\* before it, on a store that holds an entity and an edge
C17_Witness ==
  /\ last.op = "summarizeSession"
  /\ Len(sessions) = 2
  /\ entities # <<>>
  /\ relationships # <<>>


----------------------------------------------------------------------------
(* C19 *)

MaxContextEntities == 11

MaxContextMints == 3

MaxContextSessions == 2

\* the plugin loaded on the store an earlier process left: n entities of
\* the project, as knowledge_add_entity stored them
KnowledgeGraphPluginOn(n) ==
  /\ now = 1
  /\ entities = [k \in 1..n |->
                   NewEntity(<<"uuid", ToString(k)>>, BulkEntity.type,
                             BulkEntity.name, BulkEntity.content, NULL,
                             getProjectPath(BulkContext.worktree,
                                            BulkContext.directory))]
  /\ relationships = <<>>
  /\ sessions = <<>>
  /\ queries = <<>>
  /\ currentSessionId = NULL
  /\ nextUuid = n + 1
  /\ last = Idle

\* sessions summarized and then opened anew, over a store of entities
NextContext ==
  \/ Return
  \/ Within(Tick, Len(entities) + MaxContextMints)
  \/ \E ctx \in Contexts, a \in SummaryArgs :
       /\ Within(knowledge_summarize_session(ctx, a),
                 Len(entities) + MaxContextMints)
       /\ Len(sessions') <= MaxContextSessions
  \/ Within(session_created, Len(entities) + MaxContextMints)

SpecContext ==
  /\ \E n \in {0, 1, MaxContextEntities} : KnowledgeGraphPluginOn(n)
  /\ [][NextContext]_vars

\* the lines of a block that list an entity
ListedEntities(block) ==
  LET Lists(line) == startsWith(line, <<" "," ","-"," ","[">>)
  IN  Len(SelectSeq(split(block, "\n"), Lists))

\* the sessions of the instance's project that no session of the project
\* started after
LatestSessions ==
  {i \in RowsOf(sessions, projectPath) :
     \A j \in RowsOf(sessions, projectPath) :
       sessions[j].start_time <= sessions[i].start_time}

----------------------------------------------------------------------------
(* C20 *)

MaxMalformedUuid == 3

\* a text that opens as a JSON object and is none
S_NoJson == <<"{","o","o","p","s">>

\* the texts stored that are no JSON
RawTexts == {S_auth, S_NoJson}

\* decisions noted through knowledge_add_entity, their content free text
DecisionNotes ==
  { [name |-> S_UserService, type |-> S_decision, content |-> c,
     metadata |-> UNDEFINED] : c \in RawTexts }

\* The store is the file at DB_PATH, which the plugin opens and does not
\* own: another writer of the file leaves, in a session row, a context that
\* is no JSON.  The plugin itself writes no such context.
ForeignContext ==
  /\ \E i \in 1..Len(sessions) :
       /\ sessions[i].context # S_NoJson
       /\ sessions' = [sessions EXCEPT ![i].context = S_NoJson]
  /\ last' = [op |-> "foreign"]
  /\ UNCHANGED <<entities, relationships, queries, currentSessionId, nextUuid, now>>

\* decisions of free text and of JSON, questions, and the end of sessions
\* whose context another writer changed
NextMalformed ==
  \/ Return
  \/ Within(Tick, MaxMalformedUuid)
  \/ Within(ForeignContext, MaxMalformedUuid)
  \/ \E a \in DecisionNotes :
       Within(knowledge_add_entity(BulkContext, a), MaxMalformedUuid)
  \/ \E a \in DecisionArgs :
       Within(knowledge_record_decision(BulkContext, a), MaxMalformedUuid)
  \/ \E q \in Questions : Within(knowledge_ask(BulkContext, q), MaxMalformedUuid)
  \/ \E a \in SummaryArgs :
       Within(knowledge_summarize_session(BulkContext, a), MaxMalformedUuid)
  \/ Within(session_deleted, MaxMalformedUuid)

SpecMalformed == KnowledgeGraphPlugin /\ [][NextMalformed]_vars

\* C20: an ask on a project that holds a decision whose content is no JSON
\* returns, and every such decision among the five updated last is in the
\* relevantContext with its content as stored; a session-deleted signal
\* that finds the current session's row with a context that is no JSON sets
\* the endTime of the row and sets no summary and no decisions.
C20_MalformedJsonIsSwallowed ==
  [][ /\ IsCall("ask") =>
           /\ last'.ok
           /\ LET read == RecentOfType(last'.projPath, S_decision, AskLimit)
              IN  \A i \in 1..Len(read) :
                    read[i].content \in RawTexts =>
                      includes(last'.out.relevantContext,
                               <<"-", " ">> \o read[i].content)
      /\ IsCall("session.deleted") =>
           \A i \in 1..Len(sessions) :
             (sessions[i].id = currentSessionId /\ sessions[i].context = S_NoJson) =>
               /\ sessions'[i] = [sessions[i] EXCEPT !.end_time = now']
               /\ now' # NoTime
               /\ ~last'.set
    ]_vars

\* the end of a session whose context is no JSON, on a store that holds a
\* decision of free text a question was asked over
C20_Witness ==
  /\ last.op = "session.deleted"
  /\ ~last.set
  /\ \E i \in 1..Len(sessions) :
       /\ sessions[i].id = currentSessionId
       /\ sessions[i].context = S_NoJson
       /\ sessions[i].end_time = now
  /\ \E i \in 1..Len(entities) :
       entities[i].type = S_decision /\ entities[i].content \in RawTexts
  /\ queries # <<>>

----------------------------------------------------------------------------
(* C21 *)

MaxRepeatUuid == 7

\* the git commands the host runs one after the other
RepeatCommands == { S_git_status, S_git_log }

\* file reads and git commands, repeated
NextRepeat ==
  \/ Return
  \/ Within(Tick, MaxRepeatUuid)
  \/ \E r \in ToolRuns :
       Within(tool_execute_after([tool |-> r.tool, args |-> r.args],
                                 [result |-> r.result]), MaxRepeatUuid)
  \/ \E c \in RepeatCommands :
       Within(tool_execute_after([tool |-> S_bash, args |-> [command |-> c]],
                                 [result |-> S_ok]), MaxRepeatUuid)

SpecRepeat == KnowledgeGraphPlugin /\ [][NextRepeat]_vars

\* C21: documentation capture is insert-if-absent by name: whatever number
\* of git commands ran, a project holds at most one documentation entity
\* per section header name
C21_OneDocumentationPerHeader ==
  \A i, j \in 1..Len(entities) :
    /\ entities[i].type = S_documentation
    /\ entities[j].type = S_documentation
    /\ entities[i].project_path = entities[j].project_path
    /\ entities[i].name = entities[j].name
    => i = j

----------------------------------------------------------------------------
(* C22 *)

MaxEveryUuid == 2

\* every hook and every tool of one project, and knowledge_ask from every
\* project, at one reading of the clock
NextEvery ==
  \/ Return
  \/ \E a \in EntityArgs :
       Within(knowledge_add_entity(BulkContext, a), MaxEveryUuid)
  \/ \E st \in ConnectArgs :
       Within(knowledge_connect(BulkContext, st[1], st[2], S_depends_on),
              MaxEveryUuid)
  \/ \E a \in SearchArgs : Within(knowledge_search(BulkContext, a), MaxEveryUuid)
  \/ \E a \in GraphArgs : Within(knowledge_graph(BulkContext, a), MaxEveryUuid)
  \/ \E a \in SessionsArgs :
       Within(knowledge_sessions(BulkContext, a), MaxEveryUuid)
  \/ \E a \in DecisionArgs :
       Within(knowledge_record_decision(BulkContext, a), MaxEveryUuid)
  \/ \E a \in SummaryArgs :
       Within(knowledge_summarize_session(BulkContext, a), MaxEveryUuid)
  \/ \E ctx \in Contexts, q \in Questions :
       Within(knowledge_ask(ctx, q), MaxEveryUuid)
  \/ Within(session_created, MaxEveryUuid)
  \/ Within(session_compacted, MaxEveryUuid)
  \/ Within(session_deleted, MaxEveryUuid)
  \/ \E f \in FilePaths : Within(file_edited([filePath |-> f]), MaxEveryUuid)
  \/ \E r \in ToolRuns :
       Within(tool_execute_after([tool |-> r.tool, args |-> r.args],
                                 [result |-> r.result]), MaxEveryUuid)

SpecEvery == KnowledgeGraphPlugin /\ [][NextEvery]_vars

\* the ids of the rows of a table
IdsOf(rows) == { rows[i].id : i \in 1..Len(rows) }

\* C22: the query log is append-only: a knowledge_ask adds one query row,
\* under a fresh id, with the project path of the caller and the text of the
\* question, and leaves the rows before it as they were; no other hook or
\* tool adds, changes or removes a query row.  (No definition of this module
\* but the append in knowledge_ask mentions the table, so no result is drawn
\* from it.)
C22_QueryLogAppendOnly ==
  [][ /\ IsCall("ask") =>
           /\ Len(queries') = Len(queries) + 1
           /\ SubSeq(queries', 1, Len(queries)) = queries
           /\ queries'[Len(queries')].id \notin IdsOf(queries)
           /\ queries'[Len(queries')].project_path = last'.projPath
           /\ queries'[Len(queries')].query_text = last'.question
      /\ ~IsCall("ask") => queries' = queries ]_vars

\* two questions of two projects are logged, the second one just now
C22_Witness ==
  /\ last.op = "ask"
  /\ Len(queries) = 2
  /\ queries[1].project_path # queries[2].project_path
  /\ queries[2].project_path = last.projPath
  /\ queries[2].project_path # projectPath

----------------------------------------------------------------------------
(* C23 *)

\* C23: the decisions recorded through knowledge_record_decision in one
\* project bear names that differ two by two, however close the calls
C23_RecordedNamesUnique ==
  \A i, j \in 1..Len(entities) :
    /\ i # j
    /\ entities[i].type = S_decision
    /\ entities[j].type = S_decision
    /\ entities[i].project_path = entities[j].project_path
    => entities[i].name # entities[j].name

----------------------------------------------------------------------------
(* C24 *)

MaxClockUuid == 2

\* the file paths edited: one a read captures, one knowledge_add_entity names
ClockEdits == { S_a_ts, S_UserService }

\* the tool runs reported: a source file, a README, a git command
ClockRuns ==
  { r \in ToolRuns : r.tool = S_bash \/ r.args.filePath \in {S_a_ts, S_README} }

\* every hook and every tool of one project, as the clock advances
NextClock ==
  \/ Return
  \/ Within(Tick, MaxClockUuid)
  \/ Within(knowledge_add_entity(BulkContext, BulkEntity), MaxClockUuid)
  \/ \E st \in ConnectArgs :
       Within(knowledge_connect(BulkContext, st[1], st[2], S_depends_on),
              MaxClockUuid)
  \/ Within(knowledge_search(BulkContext, [query |-> S_User, type |-> UNDEFINED]),
            MaxClockUuid)
  \/ Within(knowledge_graph(BulkContext, [entityType |-> UNDEFINED]),
            MaxClockUuid)
  \/ Within(knowledge_sessions(BulkContext, [limit |-> 1]), MaxClockUuid)
  \/ \E a \in DecisionArgs :
       Within(knowledge_record_decision(BulkContext, a), MaxClockUuid)
  \/ Within(knowledge_summarize_session(BulkContext,
                                        [summary |-> S_s1, decisions |-> S_d1,
                                         files |-> S_f1]), MaxClockUuid)
  \/ \E q \in Questions : Within(knowledge_ask(BulkContext, q), MaxClockUuid)
  \/ Within(session_created, MaxClockUuid)
  \/ Within(session_compacted, MaxClockUuid)
  \/ Within(session_deleted, MaxClockUuid)
  \/ \E f \in ClockEdits : Within(file_edited([filePath |-> f]), MaxClockUuid)
  \/ \E r \in ClockRuns :
       Within(tool_execute_after([tool |-> r.tool, args |-> r.args],
                                 [result |-> r.result]), MaxClockUuid)

SpecClock == KnowledgeGraphPlugin /\ [][NextClock]_vars

\* C24: no hook and no tool removes an entity, and none changes a field of
\* a stored entity but updated_at: the rows stay in place with the id, type,
\* name, content, metadata, project_path and created_at they were stored
\* with, and the ids differ two by two
C24_EntitiesImmutable ==
  [][ /\ Len(entities') >= Len(entities)
      /\ \A i \in 1..Len(entities) :
           entities'[i] =
             [entities[i] EXCEPT !.updated_at = entities'[i].updated_at]
      /\ \A i, j \in 1..Len(entities') :
           entities'[i].id = entities'[j].id => i = j ]_vars

\* an edit has just stamped one of two entities after its creation
C24_Witness ==
  /\ last.op = "file.edited"
  /\ Len(entities) = 2
  /\ \E i \in 1..Len(entities) :
       /\ entities[i].name = normalize(last.filePath)
       /\ entities[i].updated_at > entities[i].created_at

----------------------------------------------------------------------------
(* C25 *)

\* a knowledge_connect that found both entities
IsConnected == IsCall("connect") /\ last'.ok

----------------------------------------------------------------------------
(* C26 *)

\* C26: a session row that session.deleted stamped with an end_time is
\* final: no later hook or tool of the plugin instance changes its summary,
\* key_decisions, files_modified or end_time
C26_EndedSessionIsFinal ==
  [][ \A i \in 1..Len(sessions) :
        sessions[i].end_time # NoTime =>
          /\ i <= Len(sessions')
          /\ sessions'[i].id = sessions[i].id
          /\ sessions'[i].summary = sessions[i].summary
          /\ sessions'[i].key_decisions = sessions[i].key_decisions
          /\ sessions'[i].files_modified = sessions[i].files_modified
          /\ sessions'[i].end_time = sessions[i].end_time ]_vars

----------------------------------------------------------------------------
(* C27 *)

\* the session rows that bear no end_time
OpenSessions == { i \in 1..Len(sessions) : sessions[i].end_time = NoTime }

\* C27: of the session rows the plugin instance wrote, at most one bears no
\* end_time, and it is the row of the current session id
C27_OneOpenSession ==
  /\ Cardinality(OpenSessions) <= 1
  /\ \A i \in OpenSessions : sessions[i].id = currentSessionId

----------------------------------------------------------------------------
(* C28 *)

\* C28: what session.deleted surfaces is what the last summarizeSession of
\* the session was given: in every session row the summary and decisions of
\* the context blob are the summary and key_decisions columns
C28_ContextAgreesWithColumns ==
  \A i \in 1..Len(sessions) :
    LET parsed == JsonParse(sessions[i].context)
    IN  /\ parsed.ok
        /\ JsonMember(parsed.members, S_summary) = sessions[i].summary
        /\ JsonMember(parsed.members, S_decisions) = sessions[i].key_decisions

----------------------------------------------------------------------------
(* C29 *)

\* C29: a summarizeSession called in a project writes to that project only:
\* the session row it inserts or changes bears the project path of the call
C29_SummarizeWritesOwnProject ==
  [][ IsCall("summarizeSession") =>
        \A i \in 1..Len(sessions') :
          (i > Len(sessions) \/ sessions'[i] # sessions[i])
          => sessions'[i].project_path = last'.projPath ]_vars

----------------------------------------------------------------------------
(* C30 *)

\* the lines holding 'decision:' in the first n entities, the entities of
\* type decision left out
RECURSIVE DecisionLinesOutside(_)
DecisionLinesOutside(n) ==
  IF n = 0 THEN 0
  ELSE DecisionLinesOutside(n - 1)
       + (IF entities[n].type # S_decision /\ Truthy(entities[n].content)
          THEN Len(DecisionRows(entities[n].content)) ELSE 0)

\* the decision entities a step adds
DecisionsAdded ==
  Cardinality({ i \in (Len(entities) + 1)..Len(entities') :
                  entities'[i].type = S_decision })

\* C30: decision capture does not feed on its own output: a git command
\* draws decisions from the entities that are no captured decisions, so it
\* adds at most one decision entity per 'decision:' line of those, however
\* often the command is repeated
C30_CaptureDoesNotFeedOnItself ==
  [][ (IsCall("tool.execute.after") /\ last'.input.tool = S_bash)
      => DecisionsAdded <= DecisionLinesOutside(Len(entities)) ]_vars
====
